---- MODULE Spec2Model ----
(***************************************************************************)
(* A model of repo-team-mapper: main.py (worklist, thread pool, cleanup),  *)
(* processor.py (RepoProcessor.process_repo) and api_client.py (ApiClient).*)
(* The GitHub and Port services are the environment: every request's      *)
(* outcome is a nondeterministic choice.                                   *)
(***************************************************************************)
EXTENDS Integers, Sequences, FiniteSets, TLC

\* ------------------------------------------------------------------ bounds
\* lines of a pre-existing state file / repositories of the organization
MaxRepos == 2
\* contributor records in one get_stats_contributors() answer
MaxStats == 3
\* calls made on a client driven by one thread
MaxClientCalls == 3

\* ------------------------------------------------------- program constants
\* the largest size of the thread pool a run is configured with
MAX_WORKERS == 2
TOP_COMMITTERS_COUNT == 2
RETRY_ATTEMPTS == 3
GITHUB_ORG == "org"
PORT_USER_TEAM_PROPERTY == "team"

\* ------------------------------------------------------------- value sets
\* A repository full name is the sequence of its "/"-separated segments:
\* <<"org", "svc1">> is "org/svc1".
Names == { <<"org", "svc1">>, <<"svc2">> }
Emails == { "e1", "e2" }
Teams == { "T1", "T2" }
\* the values a team property holds: the empty list, and a list whose first
\* element differs from its other elements
TeamLists == { <<>>, <<"T2", "T1">> }

\* Python's Optional[list]: None and [] are different values.
None == [none |-> TRUE, list |-> <<>>]
Some(l) == [none |-> FALSE, list |-> l]
\* Python truthiness of an Optional[list]
Truthy(t) == ~t.none /\ t.list # <<>>

\* the entity request was not sent
NotSent == [kind |-> "not sent", entity |-> [some_other_key |-> Some(<<"value">>)]]
\* no call was made yet
NoCall ==
  [n |-> 0, op |-> "", search |-> "", entity |-> NotSent, requests |-> <<>>,
   raised |-> FALSE, result |-> None, repo |-> <<>>, team |-> "",
   attempts |-> <<>>, listing |-> FALSE, upserts |-> <<>>,
   stats |-> <<>>, committers |-> <<>>]

\* the state file: absent, or its lines
NoFile == [exists |-> FALSE, lines |-> <<>>]
File(ls) == [exists |-> TRUE, lines |-> ls]

SeqsUpTo(S, n) == UNION { [1..k -> S] : k \in 0..n }
Distinct(s) == \A i, j \in 1..Len(s) : i # j => s[i] # s[j]

\* ------------------------------------------------------------------- state
VARIABLES
  env,                \* the required settings that are present (config.py)
  max_workers,        \* cfg.MAX_WORKERS, the size of the thread pool
  mainPc,             \* main()'s position
  exitCode,           \* -1 while running
  stateFile,          \* repos_to_process.txt
  repos_to_process,   \* main()'s worklist
  submitted,          \* number of futures created so far
  orgQuery,           \* what load did with the organization listing
  pc,                 \* per unit (future): position of its worker
  committers,         \* per unit: process_repo's local `committers`
  idx,                \* per unit: position of the for loop over committers
  ret,                \* per unit: the caller _get_port_token returns to
  team_identifier,    \* per unit: process_repo's local `team_identifier`
  calls,              \* per unit: the client calls of the running invocation
  port_access_token,  \* ApiClient._port_access_token
  session_auth,       \* the session carries an Authorization header
  tokenRequests,      \* token requests sent so far
  catalog,            \* Port: entity key -> team relation (<<>>: no entity)
  unmapped,           \* unmapped_repos.log: entries per repository name
  errors,             \* mapper.log: exceptions the wrapper logged, per name
  invocations,        \* process_repo invocations per repository name
  client_call         \* the last call of a client driven by one thread

vars == << env, max_workers, mainPc, exitCode, stateFile, repos_to_process, submitted, orgQuery, pc,
           committers, idx, ret, team_identifier, calls, port_access_token,
           session_auth, tokenRequests, catalog, unmapped, errors, invocations,
           client_call >>

mainVars == << env, max_workers, mainPc, exitCode, stateFile, repos_to_process, submitted,
              orgQuery, client_call >>
unitVars == << pc, committers, idx, ret, team_identifier, calls >>
clientVars == << port_access_token, session_auth, tokenRequests, catalog >>

Settings == { "GITHUB_TOKEN", "GITHUB_ORG", "PORT_CLIENT_ID", "PORT_CLIENT_SECRET" }

Units == 1..Len(repos_to_process)

\* A key that is the name without its first segment, whatever that is.
CleanRepoName_DropsOwner(repo_name) ==
  IF Len(repo_name) > 1 THEN Tail(repo_name) ELSE repo_name

\* the catalog entity key of a repository name (update_port_repository_team)
CleanRepoName(repo_name) ==
  IF Len(repo_name) > 1 /\ Head(repo_name) = GITHUB_ORG
    THEN Tail(repo_name)
    ELSE repo_name

\* the names a client driven by one thread is called with: also names that
\* hold the organization's name twice, not in front, or alone
ClientRepoNames ==
  Names \cup { <<"org", "org", "svc1">>, <<"team", "org", "svc1">>, <<"org">> }

\* the entity identifiers the catalog may hold
Keys == ClientRepoNames \cup { Tail(n) : n \in { m \in ClientRepoNames : Len(m) > 1 } }

\* ------------------------------------------------------------------- Init
\* a line of the state file: a repository name, or the blank line
Blank == <<>>
Lines == Names \cup { Blank }
InitialFiles == { NoFile } \cup { File(ls) : ls \in SeqsUpTo(Lines, MaxRepos) }

\* load has not asked for the organization listing
NoQuery == [made |-> 0, ok |-> FALSE, read |-> FALSE]

\* the state when main starts, with one of `files` as state file
InitFrom(files) ==
  /\ env \in { Settings } \cup { Settings \ {s} : s \in Settings }
  /\ max_workers \in 1..MAX_WORKERS
  /\ mainPc = "import_config"
  /\ exitCode = -1
  /\ stateFile \in files
  /\ repos_to_process = <<>>
  /\ submitted = 0
  /\ orgQuery = NoQuery
  /\ pc = <<>>
  /\ committers = <<>>
  /\ idx = <<>>
  /\ ret = <<>>
  /\ team_identifier = <<>>
  /\ calls = <<>>
  /\ port_access_token = "None"
  /\ session_auth = FALSE
  /\ tokenRequests = 0
  /\ catalog = [k \in Keys |-> <<>>]
  /\ unmapped = [n \in Names |-> 0]
  /\ errors = [n \in Names |-> 0]
  /\ invocations = [n \in Names |-> 0]
  /\ client_call = NoCall

Init == InitFrom(InitialFiles)

\* ------------------------------------------------------------------- main
\* A config module that does not validate the settings.
ImportConfig_Lenient ==
  /\ mainPc = "import_config"
  /\ mainPc' = "load"
  /\ UNCHANGED << env, max_workers, orgQuery, exitCode, stateFile, repos_to_process, submitted, client_call >>
  /\ UNCHANGED << unitVars, clientVars, unmapped, errors, invocations >>

\* config.py: the module raises ValueError at import when a required
\* setting is missing; main.py imports it first.
ImportConfig ==
  /\ mainPc = "import_config"
  /\ IF env = Settings
       THEN mainPc' = "load" /\ UNCHANGED exitCode
       ELSE mainPc' = "aborted" /\ exitCode' = 1
  /\ UNCHANGED << env, max_workers, orgQuery, stateFile, repos_to_process, submitted, client_call >>
  /\ UNCHANGED << unitVars, clientVars, unmapped, errors, invocations >>

\* A load that returns the names of the file from the last line to the first.
RECURSIVE NonEmptyLines_Reversed(_)
NonEmptyLines_Reversed(ls) ==
  IF ls = <<>> THEN <<>>
  ELSE IF Head(ls) = <<>> \/ \A k \in 1..Len(Head(ls)) : Head(ls)[k] = " "
    THEN NonEmptyLines_Reversed(Tail(ls))
  ELSE NonEmptyLines_Reversed(Tail(ls))
         \o << SelectSeq(Head(ls), LAMBDA t : t # " ") >>

\* A line is the sequence of its tokens: the segments of a name, and Space
\* for a run of whitespace. line.strip() drops the whitespace at both ends.
Space == " "
RECURSIVE LStrip(_)
LStrip(line) ==
  IF line # <<>> /\ Head(line) = Space THEN LStrip(Tail(line)) ELSE line
RECURSIVE RStrip(_)
RStrip(line) ==
  IF line # <<>> /\ line[Len(line)] = Space
    THEN RStrip(SubSeq(line, 1, Len(line) - 1))
    ELSE line
Strip(line) == RStrip(LStrip(line))

\* [line.strip() for line in f if line.strip()]
RECURSIVE NonEmptyLines(_)
NonEmptyLines(ls) ==
  IF ls = <<>> THEN <<>>
  ELSE IF Strip(Head(ls)) = Blank THEN NonEmptyLines(Tail(ls))
  ELSE <<Strip(Head(ls))>> \o NonEmptyLines(Tail(ls))

AttemptOutcomes == { "ok", "GithubException", "Exception" }

\* A listing without the broad `except Exception` clause: an unexpected
\* exception leaves the call at the attempt that met it.
get_all_organization_repos_GithubOnly(attempts) ==
  LET ends == { k \in 1..RETRY_ATTEMPTS : attempts[k] # "GithubException" }
      last == IF ends = {} THEN RETRY_ATTEMPTS
              ELSE CHOOSE k \in ends : \A j \in ends : k <= j
  IN [ok |-> ends # {} /\ attempts[last] = "ok", made |-> last,
      raised |-> ends # {} /\ attempts[last] = "Exception"]

\* get_all_organization_repos: the attempts made and whether one succeeded.
\* attempts[k] is the outcome the k-th attempt would have.
get_all_organization_repos(attempts) ==
  LET oks == { k \in 1..RETRY_ATTEMPTS : attempts[k] = "ok" }
  IN IF oks = {}
       THEN [ok |-> FALSE, made |-> RETRY_ATTEMPTS, raised |-> FALSE]
       ELSE [ok |-> TRUE, made |-> CHOOSE k \in oks : \A j \in oks : k <= j,
             raised |-> FALSE]

\* The listing org.get_repos() returns is lazy: reading it may raise.
Listings ==
  { [raises |-> TRUE, names |-> <<>>] } \cup
  { [raises |-> FALSE, names |-> ns] :
      ns \in { s \in SeqsUpTo(Names, MaxRepos) : Distinct(s) } }

\* load_repositories_to_process without a state file: the file it leaves
\* and the list it returns.
LoadFresh(attempts, listing) ==
  LET r == get_all_organization_repos(attempts)
  IN IF ~r.ok
       THEN [file |-> File(<<>>), repos |-> <<>>,
             query |-> [made |-> r.made, ok |-> FALSE, read |-> TRUE]]
     ELSE IF listing.raises
       THEN [file |-> NoFile, repos |-> <<>>,
             query |-> [made |-> r.made, ok |-> TRUE, read |-> FALSE]]
     ELSE [file |-> File(listing.names), repos |-> listing.names,
           query |-> [made |-> r.made, ok |-> TRUE, read |-> TRUE]]

LoadRepositories ==
  /\ mainPc = "load"
  /\ \E attempts \in [1..RETRY_ATTEMPTS -> AttemptOutcomes], listing \in Listings :
       LET loaded == IF stateFile.exists
                       THEN [file |-> stateFile,
                             repos |-> NonEmptyLines(stateFile.lines),
                             query |-> NoQuery]
                       ELSE LoadFresh(attempts, listing)
           n == Len(loaded.repos)
       IN /\ stateFile' = loaded.file
          /\ repos_to_process' = loaded.repos
          /\ orgQuery' = loaded.query
          /\ pc' = [i \in 1..n |-> "unsubmitted"]
          /\ committers' = [i \in 1..n |-> <<>>]
          /\ idx' = [i \in 1..n |-> 0]
          /\ ret' = [i \in 1..n |-> ""]
          /\ team_identifier' = [i \in 1..n |-> ""]
          /\ calls' = [i \in 1..n |-> <<>>]
  /\ mainPc' = "loaded"
  /\ UNCHANGED << env, max_workers, exitCode, submitted, client_call >>
  /\ UNCHANGED << clientVars, unmapped, errors, invocations >>

\* A main that treats an empty worklist as a finished run.
CheckWorklist_ExitZero ==
  /\ mainPc = "loaded"
  /\ IF repos_to_process = <<>>
       THEN mainPc' = "exited" /\ exitCode' = 0
       ELSE mainPc' = "submit" /\ UNCHANGED exitCode
  /\ UNCHANGED << env, max_workers, orgQuery, stateFile, repos_to_process, submitted, client_call >>
  /\ UNCHANGED << unitVars, clientVars, unmapped, errors, invocations >>

\* main.py 78-80
CheckWorklist ==
  /\ mainPc = "loaded"
  /\ IF repos_to_process = <<>>
       THEN mainPc' = "exited" /\ exitCode' = 1
       ELSE mainPc' = "submit" /\ UNCHANGED exitCode
  /\ UNCHANGED << env, max_workers, orgQuery, stateFile, repos_to_process, submitted, client_call >>
  /\ UNCHANGED << unitVars, clientVars, unmapped, errors, invocations >>

\* A coordinator that leaves the last name of the worklist out: it is never
\* handed to the executor.
Submit_AllButLast ==
  /\ mainPc = "submit"
  /\ IF submitted + 1 = Len(repos_to_process)
       THEN mainPc' = "wait" /\ UNCHANGED << submitted, pc >>
       ELSE /\ submitted' = submitted + 1
            /\ pc' = [pc EXCEPT ![submitted + 1] = "queued"]
            /\ mainPc' = "submit"
  /\ UNCHANGED << env, max_workers, orgQuery, exitCode, stateFile, repos_to_process, client_call >>
  /\ UNCHANGED << committers, idx, ret, team_identifier, calls >>
  /\ UNCHANGED << clientVars, unmapped, errors, invocations >>

\* executor.submit for the next name of the worklist; after the last one
\* main calls concurrent.futures.wait
Submit ==
  /\ mainPc = "submit"
  /\ submitted' = submitted + 1
  /\ pc' = [pc EXCEPT ![submitted + 1] = "queued"]
  /\ mainPc' = IF submitted + 1 = Len(repos_to_process) THEN "wait" ELSE "submit"
  /\ UNCHANGED << env, max_workers, orgQuery, exitCode, stateFile, repos_to_process, client_call >>
  /\ UNCHANGED << committers, idx, ret, team_identifier, calls >>
  /\ UNCHANGED << clientVars, unmapped, errors, invocations >>

\* A coordinator that does not wait for its futures.
Wait_NoBarrier ==
  /\ mainPc = "wait"
  /\ mainPc' = "cleanup"
  /\ UNCHANGED << env, max_workers, orgQuery, exitCode, stateFile, repos_to_process, submitted >>
  /\ UNCHANGED << client_call, unitVars, clientVars, unmapped, errors, invocations >>

\* wait(futures) and the executor's shutdown return when every future is done
Wait ==
  /\ mainPc = "wait"
  /\ \A i \in 1..submitted : pc[i] = "done"
  /\ mainPc' = "cleanup"
  /\ UNCHANGED << env, max_workers, orgQuery, exitCode, stateFile, repos_to_process, submitted >>
  /\ UNCHANGED << client_call, unitVars, clientVars, unmapped, errors, invocations >>

\* A main that keeps the state file when the wrapper logged an exception.
Cleanup_KeepOnErrors ==
  /\ mainPc = "cleanup"
  /\ stateFile' = IF \E n \in Names : errors[n] > 0 THEN stateFile ELSE NoFile
  /\ mainPc' = "exited"
  /\ exitCode' = 0
  /\ UNCHANGED << env, max_workers, orgQuery, repos_to_process, submitted, client_call >>
  /\ UNCHANGED << unitVars, clientVars, unmapped, errors, invocations >>

\* main.py 94-100, then main returns: exit code 0
Cleanup ==
  /\ mainPc = "cleanup"
  /\ stateFile' = NoFile
  /\ mainPc' = "exited"
  /\ exitCode' = 0
  /\ UNCHANGED << env, max_workers, orgQuery, repos_to_process, submitted, client_call >>
  /\ UNCHANGED << unitVars, clientVars, unmapped, errors, invocations >>

\* -------------------------------------------------------------- the client
\* One entry of a unit's call trace.
Call(op, outcome) ==
  [op |-> op, email |-> "", result |-> None, repo |-> <<>>, team |-> "",
   outcome |-> outcome]
LookupCall(email, result) ==
  [op |-> "get_port_user_team", email |-> email, result |-> result,
   repo |-> <<>>, team |-> "", outcome |-> ""]
UpsertCall(repo_name, team, outcome) ==
  [op |-> "update_port_repository_team", email |-> "", result |-> None,
   repo |-> repo_name, team |-> team, outcome |-> outcome]
UnmappedEntry(repo_name) ==
  [op |-> "unmapped", email |-> "", result |-> None, repo |-> repo_name,
   team |-> "", outcome |-> ""]

\* A contributor record of the statistics: author is FALSE when the record
\* has no author (None); email is "" when the author has no public email.
Contributors ==
  { [login |-> "u1", author |-> TRUE, email |-> "e1", total |-> 3],
    [login |-> "u2", author |-> TRUE, email |-> "e2", total |-> 2],
    [login |-> "u3", author |-> TRUE, email |-> "", total |-> 4],
    [login |-> "u4", author |-> TRUE, email |-> "", total |-> 1],
    [login |-> "", author |-> FALSE, email |-> "", total |-> 1] }

\* the position a record takes in a list sorted by total, descending, after
\* the records that compare equal to it (sorted(..., reverse=True) is stable)
RECURSIVE InsertByTotal(_, _)
InsertByTotal(c, sorted) ==
  IF sorted = <<>> THEN <<c>>
  ELSE IF Head(sorted).total >= c.total
    THEN <<Head(sorted)>> \o InsertByTotal(c, Tail(sorted))
  ELSE <<c>> \o sorted

RECURSIVE SortedByTotal(_)
SortedByTotal(stats) ==
  IF stats = <<>> THEN <<>>
  ELSE InsertByTotal(stats[Len(stats)], SortedByTotal(SubSeq(stats, 1, Len(stats) - 1)))

Take(s, n) == SubSeq(s, 1, IF Len(s) < n THEN Len(s) ELSE n)

\* the for loop of get_top_committers: the details collected, or the
\* AttributeError of `user.login` on a record without author
RECURSIVE CommitterDetails(_)
CommitterDetails(top) ==
  IF top = <<>> THEN [raised |-> FALSE, value |-> <<>>]
  ELSE LET c == Head(top)
           rest == CommitterDetails(Tail(top))
       IN IF c.author /\ c.email # ""
            THEN IF rest.raised THEN rest
                 ELSE [raised |-> FALSE,
                       value |-> <<[email |-> c.email, login |-> c.login]>> \o rest.value]
          ELSE IF ~c.author THEN [raised |-> TRUE, value |-> <<>>]
          ELSE rest

\* what get_stats_contributors() answers
StatsOutcomes ==
  { [kind |-> k, stats |-> <<>>] : k \in { "GithubException", "None" } }
  \cup { [kind |-> "stats", stats |-> st] :
           st \in { s \in SeqsUpTo(Contributors, MaxStats) :
                      \A i, j \in 1..Len(s) : i # j => s[i].login # s[j].login } }

\* A fetch that drops the contributors without email first and takes the
\* top of what is left.
get_top_committers_FilterFirst(outcome) ==
  IF outcome.kind # "stats" \/ outcome.stats = <<>>
    THEN [raised |-> FALSE, value |-> <<>>]
    ELSE LET all == CommitterDetails(SortedByTotal(outcome.stats))
         IN [raised |-> all.raised, value |-> Take(all.value, TOP_COMMITTERS_COUNT)]

get_top_committers(outcome) ==
  IF outcome.kind # "stats" \/ outcome.stats = <<>>
    THEN [raised |-> FALSE, value |-> <<>>]
    ELSE CommitterDetails(Take(SortedByTotal(outcome.stats), TOP_COMMITTERS_COUNT))

\* the results get_top_committers has over the answers of the statistics
TopCommittersResults == { get_top_committers(outcome) : outcome \in StatsOutcomes }

\* the search request's outcome: it fails, or it answers with entities
SearchOutcomes == { "fail", "empty", "found" }
\* the entity request's outcome: it fails, or it answers with an entity, a
\* map from property names to values (None is JSON's null)
EntityBodies ==
  { [some_other_key |-> Some(<<"value">>)], [team |-> None] }
  \cup { [team |-> Some(l)] : l \in TeamLists }
EntityOutcomes ==
  { [kind |-> "fail", entity |-> [some_other_key |-> Some(<<"value">>)]] }
  \cup { [kind |-> "ok", entity |-> b] : b \in EntityBodies }

\* user_entity.get(PORT_USER_TEAM_PROPERTY)
EntityGet(entity, property) ==
  IF property \in DOMAIN entity THEN entity[property] ELSE None

\* A lookup that tests the property's value for truth (`if team_identifiers:`)
\* in place of `is not None`: the empty list comes back as None.
get_port_user_team_Truthiness(search, entityOutcome) ==
  IF search \in { "fail", "empty" }
    THEN [requests |-> <<"search">>, entity |-> NotSent, raised |-> FALSE,
          result |-> None]
  ELSE IF entityOutcome.kind = "fail"
    THEN [requests |-> <<"search", "entity">>, entity |-> entityOutcome,
          raised |-> FALSE, result |-> None]
  ELSE LET team_identifiers == EntityGet(entityOutcome.entity, PORT_USER_TEAM_PROPERTY)
       IN [requests |-> <<"search", "entity">>, entity |-> entityOutcome,
           raised |-> FALSE,
           result |-> IF Truthy(team_identifiers) THEN team_identifiers ELSE None]

\* A lookup without the `except RequestException` clause: a failed request
\* raises out of the call.
get_port_user_team_Raises(search, entityOutcome) ==
  IF search = "fail"
    THEN [requests |-> <<"search">>, entity |-> NotSent, raised |-> TRUE,
          result |-> None]
  ELSE IF search = "empty"
    THEN [requests |-> <<"search">>, entity |-> NotSent, raised |-> FALSE,
          result |-> None]
  ELSE IF entityOutcome.kind = "fail"
    THEN [requests |-> <<"search", "entity">>, entity |-> entityOutcome,
          raised |-> TRUE, result |-> None]
  ELSE LET team_identifiers == EntityGet(entityOutcome.entity, PORT_USER_TEAM_PROPERTY)
       IN [requests |-> <<"search", "entity">>, entity |-> entityOutcome,
           raised |-> FALSE,
           result |-> IF ~team_identifiers.none THEN team_identifiers ELSE None]

\* A lookup that fetches the entity of the email whatever the search found.
get_port_user_team_FetchesAlways(search, entityOutcome) ==
  IF search = "fail"
    THEN [requests |-> <<"search">>, entity |-> NotSent, raised |-> FALSE,
          result |-> None]
  ELSE IF entityOutcome.kind = "fail"
    THEN [requests |-> <<"search", "entity">>, entity |-> entityOutcome,
          raised |-> FALSE, result |-> None]
  ELSE LET team_identifiers == EntityGet(entityOutcome.entity, PORT_USER_TEAM_PROPERTY)
       IN [requests |-> <<"search", "entity">>, entity |-> entityOutcome,
           raised |-> FALSE,
           result |-> IF ~team_identifiers.none THEN team_identifiers ELSE None]

\* get_port_user_team after _get_port_token returned: the requests sent, the
\* entity request's outcome (NotSent when none was sent) and the value
\* returned
get_port_user_team(search, entityOutcome) ==
  IF search = "fail"
    THEN [requests |-> <<"search">>, entity |-> NotSent, raised |-> FALSE,
          result |-> None]
  ELSE IF search = "empty"
    THEN [requests |-> <<"search">>, entity |-> NotSent, raised |-> FALSE,
          result |-> None]
  ELSE IF entityOutcome.kind = "fail"
    THEN [requests |-> <<"search", "entity">>, entity |-> entityOutcome,
          raised |-> FALSE, result |-> None]
  ELSE LET team_identifiers == EntityGet(entityOutcome.entity, PORT_USER_TEAM_PROPERTY)
       IN IF ~team_identifiers.none
            THEN [requests |-> <<"search", "entity">>, entity |-> entityOutcome,
                  raised |-> FALSE, result |-> team_identifiers]
            ELSE [requests |-> <<"search", "entity">>, entity |-> entityOutcome,
                  raised |-> FALSE, result |-> None]

\* api_client.py 29: `if self._port_access_token`
Cached(token) == token # "None"

\* A _get_port_token that requests a token on every call.
get_port_token_NoCache(token, ok) ==
  IF ok THEN [token |-> "tok", sent |-> TRUE, raised |-> FALSE]
  ELSE [token |-> token, sent |-> TRUE, raised |-> TRUE]

\* _get_port_token run by one thread: the token cached afterwards, whether a
\* request was sent and whether the call raised
get_port_token(token, ok) ==
  IF Cached(token) THEN [token |-> token, sent |-> FALSE, raised |-> FALSE]
  ELSE IF ok THEN [token |-> "tok", sent |-> TRUE, raised |-> FALSE]
  ELSE [token |-> token, sent |-> TRUE, raised |-> TRUE]

\* A catalog that adds the team to the relation it already holds.
Upsert_Appends(cat, repo_name, team, ok) ==
  IF ok THEN [cat EXCEPT ![CleanRepoName(repo_name)] = Append(@, team)] ELSE cat

\* the catalog after the upsert request of update_port_repository_team
\* (upsert=true, merge=true), which succeeded or failed
Upsert(cat, repo_name, team, ok) ==
  IF ok THEN [cat EXCEPT ![CleanRepoName(repo_name)] = <<team>>] ELSE cat

\* ----------------------------------------- a client driven by one thread
\* get_port_user_team called on the client, as tests/test_api_client.py does
ClientGetPortUserTeam ==
  /\ client_call.n < MaxClientCalls
  /\ \E tokenOk \in BOOLEAN, search \in SearchOutcomes, entityOutcome \in EntityOutcomes :
       LET tk == get_port_token(port_access_token, tokenOk)
           r == get_port_user_team(search, entityOutcome)
       IN /\ port_access_token' = tk.token
          /\ session_auth' = (session_auth \/ (tk.sent /\ ~tk.raised))
          /\ tokenRequests' = tokenRequests + (IF tk.sent THEN 1 ELSE 0)
          /\ client_call' =
               [n |-> client_call.n + 1, op |-> "get_port_user_team",
                search |-> IF tk.raised THEN "" ELSE search,
                entity |-> IF tk.raised THEN NotSent ELSE r.entity,
                requests |-> (IF tk.sent THEN <<"token">> ELSE <<>>)
                               \o (IF tk.raised THEN <<>> ELSE r.requests),
                raised |-> tk.raised \/ r.raised,
                result |-> IF tk.raised \/ r.raised THEN None ELSE r.result,
                repo |-> <<>>, team |-> "", attempts |-> <<>>,
                listing |-> FALSE, upserts |-> client_call.upserts,
                stats |-> <<>>, committers |-> <<>>]
  /\ UNCHANGED << env, max_workers, orgQuery, mainPc, exitCode, stateFile, repos_to_process, submitted >>
  /\ UNCHANGED << unitVars, catalog, unmapped, errors, invocations >>

\* update_port_repository_team called on the client
ClientUpdatePortRepositoryTeam ==
  /\ client_call.n < MaxClientCalls
  /\ \E tokenOk \in BOOLEAN, ok \in BOOLEAN, repo_name \in ClientRepoNames, team \in Teams :
       LET tk == get_port_token(port_access_token, tokenOk)
       IN /\ port_access_token' = tk.token
          /\ session_auth' = (session_auth \/ (tk.sent /\ ~tk.raised))
          /\ tokenRequests' = tokenRequests + (IF tk.sent THEN 1 ELSE 0)
          /\ catalog' = IF tk.raised THEN catalog
                        ELSE Upsert(catalog, repo_name, team, ok)
          /\ client_call' =
               [n |-> client_call.n + 1, op |-> "update_port_repository_team",
                search |-> "", entity |-> NotSent,
                requests |-> (IF tk.sent THEN <<"token">> ELSE <<>>)
                               \o (IF tk.raised THEN <<>>
                                   ELSE IF ok THEN <<"upsert">>
                                   ELSE <<"upsert failed">>),
                raised |-> tk.raised, result |-> None,
                repo |-> repo_name, team |-> team, attempts |-> <<>>,
                listing |-> FALSE,
                upserts |-> IF ~tk.raised /\ ok
                              THEN Append(client_call.upserts, <<repo_name, team>>)
                              ELSE client_call.upserts,
                stats |-> <<>>, committers |-> <<>>]
  /\ UNCHANGED << env, max_workers, orgQuery, mainPc, exitCode, stateFile, repos_to_process, submitted >>
  /\ UNCHANGED << unitVars, unmapped, errors, invocations >>

\* get_all_organization_repos called on the client: `attempts` are the
\* outcomes its attempts would have, `requests` those of the attempts made
ClientGetAllOrganizationRepos ==
  /\ client_call.n < MaxClientCalls
  /\ \E attempts \in [1..RETRY_ATTEMPTS -> AttemptOutcomes] :
       LET r == get_all_organization_repos(attempts)
       IN client_call' =
            [n |-> client_call.n + 1, op |-> "get_all_organization_repos",
             search |-> "", entity |-> NotSent,
             requests |-> SubSeq(attempts, 1, r.made),
             raised |-> r.raised, result |-> None, repo |-> <<>>, team |-> "",
             attempts |-> attempts, listing |-> r.ok,
             upserts |-> client_call.upserts,
             stats |-> <<>>, committers |-> <<>>]
  /\ UNCHANGED << env, max_workers, orgQuery, mainPc, exitCode, stateFile, repos_to_process, submitted >>
  /\ UNCHANGED << unitVars, clientVars, unmapped, errors, invocations >>

\* get_top_committers called on the client with a repository whose
\* statistics request has the outcome `outcome`
ClientGetTopCommitters ==
  /\ client_call.n < MaxClientCalls
  /\ \E outcome \in StatsOutcomes :
       LET r == get_top_committers(outcome)
       IN client_call' =
            [n |-> client_call.n + 1, op |-> "get_top_committers",
             search |-> outcome.kind, entity |-> NotSent, requests |-> <<"stats">>,
             raised |-> r.raised, result |-> None, repo |-> <<>>, team |-> "",
             attempts |-> <<>>, listing |-> FALSE,
             upserts |-> client_call.upserts,
             stats |-> outcome.stats, committers |-> r.value]
  /\ UNCHANGED << env, max_workers, orgQuery, mainPc, exitCode, stateFile, repos_to_process, submitted >>
  /\ UNCHANGED << unitVars, clientVars, unmapped, errors, invocations >>

\* --------------------------------------------------------------- the units
Running == { i \in Units : pc[i] \notin { "unsubmitted", "queued", "done" } }

Return(i, entries) ==
  /\ pc' = [pc EXCEPT ![i] = "returned"]
  /\ calls' = [calls EXCEPT ![i] = @ \o entries]

Raise(i, entries) ==
  /\ pc' = [pc EXCEPT ![i] = "raised"]
  /\ calls' = [calls EXCEPT ![i] = @ \o entries]

\* unmapped_logger.info(...)
LogUnmapped(repo_name) == unmapped' = [unmapped EXCEPT ![repo_name] = @ + 1]

\* A loop that walks the committers from the lowest rank up.
NextWithEmail_Last(cs, k) == IF k > Len(cs) THEN Len(cs) + 1 ELSE Len(cs)

\* processor.py 43-46: the position of the first committer from position k
\* on that has an email (the others are skipped), Len + 1 when there is none
RECURSIVE NextWithEmail(_, _)
NextWithEmail(cs, k) ==
  IF k > Len(cs) THEN Len(cs) + 1
  ELSE IF cs[k].email # "" THEN k
  ELSE NextWithEmail(cs, k + 1)

\* A _get_port_token that does not look at the cached token.
GetPortToken_NoCache(i, after) ==
  /\ pc' = [pc EXCEPT ![i] = "token_request"]
  /\ ret' = [ret EXCEPT ![i] = after]

\* api_client.py 29-30: _get_port_token is entered by a caller that goes on
\* at `after`: it returns the cached token, or goes on to request one
GetPortToken(i, after) ==
  /\ pc' = [pc EXCEPT ![i] = IF Cached(port_access_token) THEN after
                              ELSE "token_request"]
  /\ ret' = [ret EXCEPT ![i] = after]

\* A loop that gives up after the first committer it looked up.
ForCommitter_StopAtMiss(i, cs, k, entries) ==
  LET j == IF k > 1 THEN Len(cs) + 1 ELSE NextWithEmail(cs, k)
  IN /\ calls' = [calls EXCEPT ![i] =
                    @ \o entries \o IF j > Len(cs)
                                      THEN <<UnmappedEntry(repos_to_process[i])>>
                                      ELSE <<>>]
     /\ IF j > Len(cs)
          THEN /\ pc' = [pc EXCEPT ![i] = "returned"]
               /\ LogUnmapped(repos_to_process[i])
               /\ UNCHANGED << idx, ret >>
          ELSE /\ GetPortToken(i, "search")
               /\ idx' = [idx EXCEPT ![i] = j]
               /\ UNCHANGED unmapped

\* processor.py 43-51 and 64-72: the for loop goes on from position k of
\* `cs`: it calls get_port_user_team for the next committer with an email,
\* which starts with _get_port_token; or it ends, and process_repo logs the
\* repository as unmapped and returns
ForCommitter(i, cs, k, entries) ==
  LET j == NextWithEmail(cs, k)
  IN /\ calls' = [calls EXCEPT ![i] =
                    @ \o entries \o IF j > Len(cs)
                                      THEN <<UnmappedEntry(repos_to_process[i])>>
                                      ELSE <<>>]
     /\ IF j > Len(cs)
          THEN /\ pc' = [pc EXCEPT ![i] = "returned"]
               /\ LogUnmapped(repos_to_process[i])
               /\ UNCHANGED << idx, ret >>
          ELSE /\ GetPortToken(i, "search")
               /\ idx' = [idx EXCEPT ![i] = j]
               /\ UNCHANGED unmapped

\* An executor that starts a thread for every work item.
StartUnit_NoLimit(i) ==
  /\ pc[i] = "queued"
  /\ \A j \in Units : pc[j] = "queued" => i <= j
  /\ pc' = [pc EXCEPT ![i] = "get_repo"]
  /\ invocations' = [invocations EXCEPT ![repos_to_process[i]] = @ + 1]
  /\ UNCHANGED << mainVars, clientVars, unmapped, errors >>
  /\ UNCHANGED << committers, idx, ret, team_identifier, calls >>

\* A worker of the pool takes the oldest queued work item and calls
\* process_repo_wrapper, which calls process_repo.
StartUnit(i) ==
  /\ pc[i] = "queued"
  /\ \A j \in Units : pc[j] = "queued" => i <= j
  /\ Cardinality(Running) < max_workers
  /\ pc' = [pc EXCEPT ![i] = "get_repo"]
  /\ invocations' = [invocations EXCEPT ![repos_to_process[i]] = @ + 1]
  /\ UNCHANGED << mainVars, clientVars, unmapped, errors >>
  /\ UNCHANGED << committers, idx, ret, team_identifier, calls >>

\* A process_repo that logs an unresolved repository as unmapped.
GetRepo_LogsUnresolved(i) ==
  /\ pc[i] = "get_repo"
  /\ \E outcome \in { "repo", "GithubException", "Exception" } :
       IF outcome = "repo"
         THEN /\ pc' = [pc EXCEPT ![i] = "get_top_committers"]
              /\ calls' = [calls EXCEPT ![i] = @ \o <<Call("get_repo", "repo")>>]
              /\ UNCHANGED unmapped
       ELSE IF outcome = "GithubException"
         THEN /\ Return(i, <<Call("get_repo", "None"),
                             UnmappedEntry(repos_to_process[i])>>)
              /\ LogUnmapped(repos_to_process[i])
       ELSE /\ Raise(i, <<Call("get_repo", "raised")>>)
            /\ UNCHANGED unmapped
  /\ UNCHANGED << mainVars, clientVars, errors, invocations >>
  /\ UNCHANGED << committers, idx, ret, team_identifier >>

\* processor.py 27-30 with ApiClient.get_repo, which catches GithubException
\* only
GetRepo(i) ==
  /\ pc[i] = "get_repo"
  /\ \E outcome \in { "repo", "GithubException", "Exception" } :
       IF outcome = "repo"
         THEN /\ pc' = [pc EXCEPT ![i] = "get_top_committers"]
              /\ calls' = [calls EXCEPT ![i] = @ \o <<Call("get_repo", "repo")>>]
       ELSE IF outcome = "GithubException"
         THEN Return(i, <<Call("get_repo", "None")>>)
       ELSE Raise(i, <<Call("get_repo", "raised")>>)
  /\ UNCHANGED << mainVars, clientVars, unmapped, errors, invocations >>
  /\ UNCHANGED << committers, idx, ret, team_identifier >>

\* A process_repo that returns without a log entry when there are no
\* committers.
GetTopCommitters_SilentEmpty(i) ==
  /\ pc[i] = "get_top_committers"
  /\ \E r \in TopCommittersResults :
          IF r.raised
            THEN /\ Raise(i, <<Call("get_top_committers", "raised")>>)
                 /\ UNCHANGED << committers, idx, ret, unmapped >>
          ELSE IF r.value = <<>>
            THEN /\ Return(i, <<Call("get_top_committers", "empty")>>)
                 /\ UNCHANGED << committers, idx, ret, unmapped >>
          ELSE /\ committers' = [committers EXCEPT ![i] = r.value]
               /\ ForCommitter(i, r.value, 1, <<Call("get_top_committers", "committers")>>)
  /\ UNCHANGED << mainVars, clientVars, errors, invocations, team_identifier >>

\* processor.py 32-46 with ApiClient.get_top_committers
GetTopCommitters(i) ==
  /\ pc[i] = "get_top_committers"
  /\ \E r \in TopCommittersResults :
          IF r.raised
            THEN /\ Raise(i, <<Call("get_top_committers", "raised")>>)
                 /\ UNCHANGED << committers, idx, ret, unmapped >>
          ELSE IF r.value = <<>>
            THEN /\ Return(i, <<Call("get_top_committers", "empty"),
                                UnmappedEntry(repos_to_process[i])>>)
                 /\ LogUnmapped(repos_to_process[i])
                 /\ UNCHANGED << committers, idx, ret >>
          ELSE /\ committers' = [committers EXCEPT ![i] = r.value]
               /\ ForCommitter(i, r.value, 1, <<Call("get_top_committers", "committers")>>)
  /\ UNCHANGED << mainVars, clientVars, errors, invocations, team_identifier >>

\* api_client.py 32-51: the token request; a failure is raised again and
\* leaves process_repo
TokenRequest(i) ==
  /\ pc[i] = "token_request"
  /\ tokenRequests' = tokenRequests + 1
  /\ \E ok \in BOOLEAN :
       IF ok
         THEN /\ port_access_token' = "tok"
              /\ session_auth' = TRUE
              /\ pc' = [pc EXCEPT ![i] = ret[i]]
              /\ calls' = [calls EXCEPT ![i] = @ \o <<Call("token_request", "ok")>>]
         ELSE /\ Raise(i, <<Call("token_request", "raised")>>)
              /\ UNCHANGED << port_access_token, session_auth >>
  /\ UNCHANGED << mainVars, catalog, unmapped, errors, invocations >>
  /\ UNCHANGED << committers, idx, ret, team_identifier >>

\* A selection of the last team of the list.
TeamIdentifier_Last(teams) == teams[Len(teams)]

\* processor.py 54: team_identifier = teams[0]
TeamIdentifier(teams) == teams[1]

\* api_client.py 136-192 and processor.py 51-72: the two requests of
\* get_port_user_team, then process_repo tests `teams`: it goes on to the
\* upsert, or to the next committer
PortUserTeam(i) ==
  /\ pc[i] = "search"
  /\ \E search \in SearchOutcomes, entityOutcome \in EntityOutcomes :
       LET r == get_port_user_team(search, entityOutcome)
           teams == r.result
           entry == LookupCall(committers[i][idx[i]].email, teams)
       IN IF r.raised
            THEN /\ Raise(i, <<Call("get_port_user_team", "raised")>>)
                 /\ UNCHANGED << idx, ret, team_identifier, unmapped >>
          ELSE IF Truthy(teams)
            THEN /\ team_identifier' = [team_identifier EXCEPT ![i] = TeamIdentifier(teams.list)]
                 /\ GetPortToken(i, "upsert")
                 /\ calls' = [calls EXCEPT ![i] = @ \o <<entry>>]
                 /\ UNCHANGED << idx, unmapped >>
            ELSE /\ ForCommitter(i, committers[i], idx[i] + 1, <<entry>>)
                 /\ UNCHANGED team_identifier
  /\ UNCHANGED << mainVars, clientVars, errors, invocations, committers >>

\* A process_repo without the `return` after the upsert: the loop goes on
\* with the next committer.
UpdatePortRepositoryTeam_NoReturn(i) ==
  /\ pc[i] = "upsert"
  /\ \E ok \in BOOLEAN :
       /\ ForCommitter(i, committers[i], idx[i] + 1,
                       <<UpsertCall(repos_to_process[i], team_identifier[i],
                                    IF ok THEN "ok" ELSE "fail")>>)
       /\ catalog' = Upsert(catalog, repos_to_process[i], team_identifier[i], ok)
  /\ UNCHANGED << mainVars, port_access_token, session_auth, tokenRequests >>
  /\ UNCHANGED << errors, invocations, committers, team_identifier >>

\* An update_port_repository_team without its `except` clause: a failed
\* upsert request raises out of process_repo.
UpdatePortRepositoryTeam_Raises(i) ==
  /\ pc[i] = "upsert"
  /\ \E ok \in BOOLEAN :
       /\ IF ok
            THEN Return(i, <<UpsertCall(repos_to_process[i], team_identifier[i], "ok")>>)
            ELSE Raise(i, <<UpsertCall(repos_to_process[i], team_identifier[i], "fail")>>)
       /\ catalog' = Upsert(catalog, repos_to_process[i], team_identifier[i], ok)
  /\ UNCHANGED << mainVars, port_access_token, session_auth, tokenRequests >>
  /\ UNCHANGED << unmapped, errors, invocations >>
  /\ UNCHANGED << committers, idx, ret, team_identifier >>

\* A process_repo that logs the repository as unmapped when the upsert
\* request failed.
UpdatePortRepositoryTeam_LogsFailure(i) ==
  /\ pc[i] = "upsert"
  /\ \E ok \in BOOLEAN :
       /\ Return(i, <<UpsertCall(repos_to_process[i], team_identifier[i],
                                 IF ok THEN "ok" ELSE "fail")>>
                      \o IF ok THEN <<>> ELSE <<UnmappedEntry(repos_to_process[i])>>)
       /\ catalog' = Upsert(catalog, repos_to_process[i], team_identifier[i], ok)
       /\ IF ok THEN UNCHANGED unmapped ELSE LogUnmapped(repos_to_process[i])
  /\ UNCHANGED << mainVars, port_access_token, session_auth, tokenRequests >>
  /\ UNCHANGED << errors, invocations >>
  /\ UNCHANGED << committers, idx, ret, team_identifier >>

\* A process_repo that goes on with the next committer when the upsert
\* request failed.
UpdatePortRepositoryTeam_TriesNext(i) ==
  /\ pc[i] = "upsert"
  /\ \E ok \in BOOLEAN :
       /\ IF ok
            THEN /\ Return(i, <<UpsertCall(repos_to_process[i], team_identifier[i], "ok")>>)
                 /\ UNCHANGED << idx, ret, unmapped >>
            ELSE ForCommitter(i, committers[i], idx[i] + 1,
                              <<UpsertCall(repos_to_process[i], team_identifier[i], "fail")>>)
       /\ catalog' = Upsert(catalog, repos_to_process[i], team_identifier[i], ok)
  /\ UNCHANGED << mainVars, port_access_token, session_auth, tokenRequests >>
  /\ UNCHANGED << errors, invocations, committers, team_identifier >>

\* api_client.py 209-246: the upsert request; a failure is logged
UpdatePortRepositoryTeam(i) ==
  /\ pc[i] = "upsert"
  /\ \E ok \in BOOLEAN :
       /\ Return(i, <<UpsertCall(repos_to_process[i], team_identifier[i],
                                 IF ok THEN "ok" ELSE "fail")>>)
       /\ catalog' = Upsert(catalog, repos_to_process[i], team_identifier[i], ok)
  /\ UNCHANGED << mainVars, port_access_token, session_auth, tokenRequests >>
  /\ UNCHANGED << unmapped, errors, invocations >>
  /\ UNCHANGED << committers, idx, ret, team_identifier >>

\* A future that is never done when process_repo raised.
WrapperReturn_LosesRaised(i) ==
  /\ pc[i] = "returned"
  /\ pc' = [pc EXCEPT ![i] = "done"]
  /\ committers' = [committers EXCEPT ![i] = <<>>]
  /\ idx' = [idx EXCEPT ![i] = 0]
  /\ ret' = [ret EXCEPT ![i] = ""]
  /\ team_identifier' = [team_identifier EXCEPT ![i] = ""]
  /\ calls' = [calls EXCEPT ![i] = <<>>]
  /\ UNCHANGED << mainVars, clientVars, unmapped, errors, invocations >>

\* A wrapper without the `except Exception` clause, and a coordinator that
\* reads its futures' results: an exception of process_repo ends the run
\* with exit code 1.
WrapperReturn_Propagates(i) ==
  /\ pc[i] \in { "returned", "raised" }
  /\ pc' = [pc EXCEPT ![i] = "done"]
  /\ committers' = [committers EXCEPT ![i] = <<>>]
  /\ idx' = [idx EXCEPT ![i] = 0]
  /\ ret' = [ret EXCEPT ![i] = ""]
  /\ team_identifier' = [team_identifier EXCEPT ![i] = ""]
  /\ calls' = [calls EXCEPT ![i] = <<>>]
  /\ IF pc[i] = "raised"
       THEN mainPc' = "exited" /\ exitCode' = 1
       ELSE UNCHANGED << mainPc, exitCode >>
  /\ UNCHANGED << env, max_workers, orgQuery, stateFile, repos_to_process, submitted, client_call >>
  /\ UNCHANGED << clientVars, unmapped, errors, invocations >>

\* main.py 27-35: process_repo returned or raised; the wrapper logs an
\* exception and returns, the future is done and the frame is gone
WrapperReturn(i) ==
  /\ pc[i] \in { "returned", "raised" }
  /\ pc' = [pc EXCEPT ![i] = "done"]
  /\ committers' = [committers EXCEPT ![i] = <<>>]
  /\ idx' = [idx EXCEPT ![i] = 0]
  /\ ret' = [ret EXCEPT ![i] = ""]
  /\ team_identifier' = [team_identifier EXCEPT ![i] = ""]
  /\ calls' = [calls EXCEPT ![i] = <<>>]
  /\ errors' = IF pc[i] = "raised"
                 THEN [errors EXCEPT ![repos_to_process[i]] = @ + 1]
                 ELSE errors
  /\ UNCHANGED << mainVars, clientVars, unmapped, invocations >>

Next ==
  \/ ImportConfig
  \/ LoadRepositories
  \/ CheckWorklist
  \/ Submit
  \/ Wait
  \/ Cleanup
  \/ \E i \in Units : StartUnit(i)
  \/ \E i \in Units : GetRepo(i)
  \/ \E i \in Units : GetTopCommitters(i)
  \/ \E i \in Units : TokenRequest(i)
  \/ \E i \in Units : PortUserTeam(i)
  \/ \E i \in Units : UpdatePortRepositoryTeam(i)
  \/ \E i \in Units : WrapperReturn(i)

Spec == Init /\ [][Next]_vars

\* Every client call returns and the threads are scheduled: a step that can
\* be taken is taken.
Fairness == WF_vars(Next)

\* A run that starts without a state file, with any configuration.
InitLive == Init /\ stateFile = NoFile

SpecLive == InitLive /\ [][Next]_vars /\ Fairness

\* One ApiClient, just constructed, on which one thread makes calls.
InitClient ==
  Init /\ env = Settings /\ stateFile = NoFile /\ max_workers = MAX_WORKERS

NextClient ==
  \/ ClientGetPortUserTeam
  \/ ClientUpdatePortRepositoryTeam
  \/ ClientGetAllOrganizationRepos

SpecClient == InitClient /\ [][NextClient]_vars

\* One ApiClient on which one thread calls get_top_committers.
NextStats == ClientGetTopCommitters

SpecStats == InitClient /\ [][NextStats]_vars

\* A run that starts without a state file.
InitFresh == Init /\ env = Settings /\ stateFile = NoFile

SpecFresh == InitFresh /\ [][Next]_vars

\* main up to the test of the worklist, over state files whose lines may
\* carry whitespace
LoadLines == Lines \cup { <<Space>>, <<Space, "svc2", Space>> }
LoadFiles == { NoFile } \cup { File(ls) : ls \in SeqsUpTo(LoadLines, MaxRepos) }
InitLoad == InitFrom(LoadFiles)

NextLoad ==
  \/ ImportConfig
  \/ LoadRepositories
  \/ CheckWorklist

SpecLoad == InitLoad /\ [][NextLoad]_vars

\* ------------------------------------------------------------- properties
Occurrences(seq, x) == Cardinality({ k \in 1..Len(seq) : seq[k] = x })
OpCount(i, op) == Cardinality({ k \in 1..Len(calls[i]) : calls[i][k].op = op })
IsLookup(c) == c.op = "get_port_user_team"
\* the calls of get_port_user_team that returned, in order
Lookups(i) == SelectSeq(calls[i], IsLookup)
\* units whose worker has taken them from the queue
Started(n) ==
  { i \in Units : repos_to_process[i] = n /\ pc[i] \notin { "unsubmitted", "queued" } }
RunFinished == mainPc = "exited" /\ repos_to_process # <<>>
CatalogOps == { "token_request", "get_port_user_team", "update_port_repository_team" }

\* C1 as stated: after a run, process_repo was invoked exactly once for
\* every repository name of the worklist.
C1_OncePerName ==
  RunFinished =>
    \A k \in Units : invocations[repos_to_process[k]] = 1

\* C1, amended: process_repo is invoked exactly once for every entry of the
\* worklist. At any time the invocations of a name are the entries of that
\* name taken from the queue, and after the run they are all its entries: a
\* name on k lines of the state file is processed k times.
C1_OncePerEntry ==
  \A n \in Names :
    /\ invocations[n] = Cardinality(Started(n))
    /\ RunFinished => invocations[n] = Occurrences(repos_to_process, n)

\* a name on both lines of the state file was processed twice
C1_Witness ==
  /\ RunFinished
  /\ repos_to_process = << <<"svc2">>, <<"svc2">> >>
  /\ invocations[<<"svc2">>] = 2

\* C2: an exception of process_repo stays in the unit that raised it: while
\* a unit has raised, main is still submitting or waiting and no exit code
\* is set; the run ends only with every unit done, each name invoked as
\* often as it is listed, and exit code 0, whatever number of units raised.
C2_FailureIsolation ==
  /\ \A i \in Units : pc[i] = "raised" => mainPc \in { "submit", "wait" } /\ exitCode = -1
  /\ RunFinished =>
       /\ exitCode = 0
       /\ \A i \in Units : pc[i] = "done"
       /\ \A n \in Names : invocations[n] = Occurrences(repos_to_process, n)

\* one unit raised, the other one mapped its repository, the run exited 0
C2_Witness ==
  /\ RunFinished
  /\ exitCode = 0
  /\ errors[<<"svc2">>] = 1
  /\ repos_to_process = << <<"svc2">>, <<"org", "svc1">> >>
  /\ catalog[<<"svc1">>] # <<>>

\* C3: in a run that started without a state file, whenever a unit is queued
\* or running the file exists and holds exactly the names of the worklist,
\* one per line; the file changes only when load writes it, before any unit
\* is submitted, and when cleanup deletes it, after every unit is done.
C3_UnitsPending == \E i \in Units : pc[i] \notin { "unsubmitted", "done" }
C3_CheckpointLifecycle ==
  /\ [](C3_UnitsPending => stateFile = File(repos_to_process))
  /\ [][stateFile' # stateFile =>
          \/ /\ ~stateFile.exists /\ stateFile'.exists
             /\ submitted = 0 /\ mainPc = "load"
          \/ /\ stateFile.exists /\ ~stateFile'.exists
             /\ submitted = Len(repos_to_process)
             /\ \A i \in Units : pc[i] = "done"]_vars

\* one unit is running, the other one is queued or done, the file is there
C3_Witness ==
  /\ Len(repos_to_process) = 2
  /\ pc[2] = "search"
  /\ stateFile = File(repos_to_process)

\* C4: one invocation of process_repo makes at most one upsert, and only the
\* last team lookup it makes can have returned a non-empty list.
C4_OneUpsertFirstMatch ==
  \A i \in Units :
    LET lookups == Lookups(i)
    IN /\ OpCount(i, "update_port_repository_team") <= 1
       /\ \A k \in 1..Len(lookups) : Truthy(lookups[k].result) => k = Len(lookups)

\* two committers, the first one has a team: the second one is not looked up
C4_Witness ==
  \E i \in Units :
    /\ pc[i] = "returned"
    /\ Len(committers[i]) = 2
    /\ Len(Lookups(i)) = 1
    /\ Truthy(Lookups(i)[1].result)
    /\ OpCount(i, "update_port_repository_team") = 1

\* C5: the lookups follow the ranked list of committers, and an upsert
\* passes the name process_repo was given and the first team of the first
\* lookup that returned a non-empty list.
C5_UpsertFirstTeam ==
  \A i \in Units :
    LET lookups == Lookups(i)
    IN /\ \A j \in 1..Len(lookups) :
            j <= Len(committers[i]) /\ lookups[j].email = committers[i][j].email
       /\ \A k \in 1..Len(calls[i]) :
            calls[i][k].op = "update_port_repository_team" =>
              /\ calls[i][k].repo = repos_to_process[i]
              /\ \E j \in 1..Len(lookups) :
                   /\ Truthy(lookups[j].result)
                   /\ \A h \in 1..(j - 1) : ~Truthy(lookups[h].result)
                   /\ calls[i][k].team = Head(lookups[j].result.list)

\* the second committer's lookup returned two teams; the first is upserted
C5_Witness ==
  \E i \in Units :
    /\ pc[i] = "returned"
    /\ Len(Lookups(i)) = 2
    /\ Lookups(i)[2].result = Some(<<"T2", "T1">>)
    /\ \E k \in 1..Len(calls[i]) :
         /\ calls[i][k].op = "update_port_repository_team"
         /\ calls[i][k].team = "T2"
         /\ calls[i][k].repo = repos_to_process[i]

\* C6: when get_top_committers returned an empty list, process_repo has
\* returned, with one unmapped-log entry for its repository and no catalog
\* call: the call trace is get_repo, get_top_committers, the log entry.
C6_EmptyCommitters ==
  \A i \in Units :
    (\E k \in 1..Len(calls[i]) :
        calls[i][k].op = "get_top_committers" /\ calls[i][k].outcome = "empty")
    => /\ pc[i] = "returned"
       /\ calls[i] = << Call("get_repo", "repo"), Call("get_top_committers", "empty"),
                        UnmappedEntry(repos_to_process[i]) >>
       /\ \A k \in 1..Len(calls[i]) : calls[i][k].op \notin CatalogOps
       /\ unmapped[repos_to_process[i]] >= 1

C6_Witness ==
  \E i \in Units :
    /\ pc[i] = "returned"
    /\ OpCount(i, "get_top_committers") = 1
    /\ committers[i] = <<>>
    /\ OpCount(i, "unmapped") = 1
    /\ unmapped[repos_to_process[i]] = 1

\* C7: when process_repo has returned and no lookup of its non-empty list
\* of committers returned a non-empty list, it looked up every committer,
\* in order, wrote one unmapped-log entry and made no upsert.
C7_MappingMiss ==
  \A i \in Units :
    LET lookups == Lookups(i)
    IN
    ( /\ pc[i] = "returned"
      /\ committers[i] # <<>>
      /\ \A j \in 1..Len(lookups) : ~Truthy(lookups[j].result) )
    => /\ Len(lookups) = Len(committers[i])
       /\ \A j \in 1..Len(committers[i]) : lookups[j].email = committers[i][j].email
       /\ OpCount(i, "unmapped") = 1
       /\ calls[i][Len(calls[i])] = UnmappedEntry(repos_to_process[i])
       /\ OpCount(i, "update_port_repository_team") = 0
       /\ unmapped[repos_to_process[i]] >= 1

\* two committers, one lookup returned None and the other the empty list
C7_Witness ==
  \E i \in Units :
    /\ pc[i] = "returned"
    /\ Len(committers[i]) = 2
    /\ Len(Lookups(i)) = 2
    /\ Lookups(i)[1].result = None
    /\ Lookups(i)[2].result = Some(<<>>)
    /\ OpCount(i, "unmapped") = 1
    /\ OpCount(i, "update_port_repository_team") = 0

\* C8: when get_repo returned None, process_repo has returned and get_repo
\* is the only call it made: no committer fetch, no catalog call, no upsert
\* and no unmapped-log entry.
C8_UnresolvedRepo ==
  \A i \in Units :
    (\E k \in 1..Len(calls[i]) :
        calls[i][k].op = "get_repo" /\ calls[i][k].outcome = "None")
    => /\ pc[i] = "returned"
       /\ calls[i] = << Call("get_repo", "None") >>
       /\ committers[i] = <<>>

\* a unit whose repository was not resolved, in a run that logged nothing
C8_Witness ==
  /\ \E i \in Units : pc[i] = "returned" /\ calls[i] = << Call("get_repo", "None") >>
  /\ \A n \in Names : unmapped[n] = 0
  /\ \A k \in Keys : catalog[k] = <<>>

\* C9: get_port_user_team returns None when the search finds no user, or
\* when the entity fetched has no team property; it returns the property's
\* list when the property holds one, the empty list included, and the
\* empty list is not None.
C9_LastLookup == client_call.op = "get_port_user_team" /\ ~client_call.raised
C9_TeamProperty == client_call.entity.entity
C9_NoneVersusEmpty ==
  C9_LastLookup =>
    /\ client_call.search = "empty" => client_call.result = None
    /\ ( client_call.entity.kind = "ok"
         /\ PORT_USER_TEAM_PROPERTY \notin DOMAIN C9_TeamProperty )
       => client_call.result = None
    /\ ( client_call.entity.kind = "ok"
         /\ PORT_USER_TEAM_PROPERTY \in DOMAIN C9_TeamProperty
         /\ ~C9_TeamProperty[PORT_USER_TEAM_PROPERTY].none )
       => /\ client_call.result = C9_TeamProperty[PORT_USER_TEAM_PROPERTY]
          /\ client_call.result # None
          /\ client_call.result.list = C9_TeamProperty[PORT_USER_TEAM_PROPERTY].list

\* the entity's team property is the empty list, and so is the result
C9_Witness ==
  /\ C9_LastLookup
  /\ client_call.entity = [kind |-> "ok", entity |-> [team |-> Some(<<>>)]]
  /\ client_call.result = Some(<<>>)

\* C10: when the search request or the entity request of get_port_user_team
\* fails, the call returns None and raises nothing.
C10_TransportFailure ==
  ( /\ client_call.op = "get_port_user_team"
    /\ \/ client_call.search = "fail"
       \/ client_call.entity.kind = "fail" )
  => ~client_call.raised /\ client_call.result = None

\* the search found the user and the entity request failed
C10_Witness ==
  /\ client_call.op = "get_port_user_team"
  /\ client_call.requests = <<"token", "search", "entity">>
  /\ client_call.entity.kind = "fail"
  /\ client_call.result = None
  /\ ~client_call.raised

\* the last call of unit i's trace
LastCall(i) == calls[i][Len(calls[i])]
\* the failures that leave the client method that met them
Propagated ==
  { Call("token_request", "raised"), Call("get_repo", "raised"),
    Call("get_top_committers", "raised") }

\* C11 as stated: no failure of a request made for process_repo leaves the
\* client method that made it, so process_repo never raises because a
\* token request or a repository fetch failed.
C11_NoFailurePropagates ==
  \A i \in Units :
    pc[i] = "raised" =>
      LastCall(i) \notin { Call("token_request", "raised"), Call("get_repo", "raised") }

\* C11, amended: a failed upsert request and a GitHub error of the
\* repository fetch end process_repo by a normal return, and a lookup never
\* raises; process_repo raises only at its last call, which is a token
\* request that failed (_get_port_token raises it again), a repository
\* fetch that failed with something else than a GitHub error, or a
\* committer fetch that met a record without author.
C11_WhatPropagates ==
  \A i \in Units :
    /\ pc[i] = "raised" => calls[i] # <<>> /\ LastCall(i) \in Propagated
    /\ \A k \in 1..Len(calls[i]) :
         /\ calls[i][k].outcome = "raised" => k = Len(calls[i]) /\ pc[i] = "raised"
         /\ calls[i][k].outcome = "fail" =>
              /\ calls[i][k].op = "update_port_repository_team"
              /\ k = Len(calls[i]) /\ pc[i] = "returned"
         /\ calls[i][k].op = "get_port_user_team" => calls[i][k].outcome = ""

\* the token request of the first lookup failed and process_repo raised
C11_Witness ==
  \E i \in Units :
    /\ pc[i] = "raised"
    /\ calls[i] = << Call("get_repo", "repo"), Call("get_top_committers", "committers"),
                     Call("token_request", "raised") >>

\* C12: main exits with a non-zero code, no future created and no
\* invocation made, when the worklist it loaded is empty; otherwise it
\* exits with code 0, every entry submitted and every unit done; and no
\* exit code is set before.
C12_ExitBehaviour ==
  /\ exitCode # -1 <=> mainPc \in { "exited", "aborted" }
  /\ mainPc = "exited" =>
       IF repos_to_process = <<>>
         THEN /\ exitCode = 1
              /\ submitted = 0
              /\ \A n \in Names : invocations[n] = 0
         ELSE /\ exitCode = 0
              /\ submitted = Len(repos_to_process)
              /\ \A i \in Units : pc[i] = "done"

\* exit code 0 after one repository raised and the other one was unmapped
C12_Witness ==
  /\ mainPc = "exited"
  /\ exitCode = 0
  /\ \E n, m \in Names : n # m /\ errors[n] = 1 /\ unmapped[m] = 1

\* C13 as stated: after a listing query that failed (no attempt succeeded,
\* or reading the listing raised) the worklist is empty and there is no
\* state file.
C13_NoCheckpointAfterFailedQuery ==
  ( /\ mainPc \in { "loaded", "exited" }
    /\ orgQuery.made > 0
    /\ ~orgQuery.ok \/ ~orgQuery.read )
  => repos_to_process = <<>> /\ ~stateFile.exists

\* C14: get_all_organization_repos makes between 1 and 3 attempts and never
\* raises; every attempt before the last one it made failed, with a GitHub
\* error or with any other exception; it returns the listing exactly when
\* the last attempt it made succeeded, which is the first attempt that
\* would succeed; and it returns the empty list after 3 failed attempts.
C14_BoundedRetry ==
  client_call.op = "get_all_organization_repos" =>
    LET attempts == client_call.attempts
        made == Len(client_call.requests)
    IN /\ ~client_call.raised
       /\ made >= 1 /\ made <= 3
       /\ client_call.requests = SubSeq(attempts, 1, made)
       /\ \A k \in 1..(made - 1) : attempts[k] \in { "GithubException", "Exception" }
       /\ client_call.listing <=> attempts[made] = "ok"
       /\ ~client_call.listing =>
            made = 3 /\ \A k \in 1..3 : attempts[k] # "ok"

\* an unexpected exception, then a GitHub error, then the listing
C14_Witness ==
  /\ client_call.op = "get_all_organization_repos"
  /\ client_call.requests = <<"Exception", "GithubException", "ok">>
  /\ client_call.listing
  /\ ~client_call.raised

\* a line that line.strip() leaves non-empty
C15_NotBlank(line) == \E k \in 1..Len(line) : line[k] # Space
C15_Name(line) == SelectSeq(line, LAMBDA t : t # Space)
C15_Kept(lines) == SelectSeq(lines, C15_NotBlank)

\* C15: when the state file exists, load_repositories_to_process returns
\* the lines of the file that are not blank, in the order of the file and
\* without the whitespace around them, makes no attempt to list the
\* organization and leaves the file as it is.
C15_LoadFromCheckpoint ==
  [][ (mainPc = "load" /\ stateFile.exists) =>
        /\ stateFile' = stateFile
        /\ orgQuery' = NoQuery
        /\ Len(repos_to_process') = Len(C15_Kept(stateFile.lines))
        /\ \A k \in 1..Len(repos_to_process') :
             repos_to_process'[k] = C15_Name(C15_Kept(stateFile.lines)[k]) ]_vars

\* a file of two names, one of them between whitespace, was loaded in the
\* order of its lines
C15_Witness ==
  /\ mainPc = "loaded"
  /\ stateFile = File(<< <<Space, "svc2", Space>>, <<"org", "svc1">> >>)
  /\ repos_to_process = << <<"svc2">>, <<"org", "svc1">> >>
  /\ orgQuery = NoQuery

\* C16: when main has reached the join, every unit is done, and after a run
\* with a non-empty worklist there is no state file, whatever the units
\* logged.
C16_CheckpointGone ==
  /\ mainPc = "cleanup" => \A i \in Units : pc[i] = "done"
  /\ RunFinished => stateFile = NoFile

\* the run started from a state file and every repository raised or was
\* logged as unmapped
C16_Witness ==
  /\ RunFinished
  /\ orgQuery = NoQuery
  /\ stateFile = NoFile
  /\ Len(repos_to_process) = 2
  /\ errors[repos_to_process[1]] = 1
  /\ unmapped[repos_to_process[2]] = 1

\* the catalog after the upserts of `upserts`, in order, all successful
RECURSIVE C17_Replay(_, _)
C17_Replay(cat, upserts) ==
  IF upserts = <<>> THEN cat
  ELSE C17_Replay(Upsert(cat, Head(upserts)[1], Head(upserts)[2], TRUE), Tail(upserts))

\* C17: an upsert that succeeded, made once more with the same repository
\* name and team, leaves the catalog as it is; and making all the upserts
\* of a client once more, in the same order, leaves the catalog as it is.
C17_UpsertIdempotent ==
  LET upserts == client_call.upserts
  IN /\ catalog = C17_Replay([k \in Keys |-> <<>>], upserts)
     /\ upserts # <<>> =>
          LET last == upserts[Len(upserts)]
          IN Upsert(catalog, last[1], last[2], TRUE) = catalog
     /\ C17_Replay(catalog, upserts) = catalog

\* the same upsert was made twice
C17_Witness ==
  /\ client_call.op = "update_port_repository_team"
  /\ Len(client_call.upserts) = 2
  /\ client_call.upserts[1] = client_call.upserts[2]
  /\ catalog[<<"svc1">>] = <<"T1">>

\* C18: after an upsert that succeeded, the entity whose key is the name
\* without a leading "org" segment ("org/svc1" gives "svc1", "org/org/svc1"
\* gives "org/svc1"), or the name itself when it does not start with
\* "org/", holds the one-element list of the team passed; and every
\* relation of the catalog is such a list, written under such a key.
C18_Key(name) ==
  CASE name = <<"org", "svc1">> -> <<"svc1">>
    [] name = <<"org", "org", "svc1">> -> <<"org", "svc1">>
    [] name = <<"team", "org", "svc1">> -> <<"team", "org", "svc1">>
    [] name = <<"org">> -> <<"org">>
    [] OTHER -> name
C18_EntityKey ==
  LET upserts == client_call.upserts
  IN /\ ( /\ client_call.op = "update_port_repository_team"
          /\ client_call.requests # <<>>
          /\ client_call.requests[Len(client_call.requests)] = "upsert" )
        => catalog[C18_Key(client_call.repo)] = << client_call.team >>
     /\ \A key \in Keys :
          catalog[key] # <<>> =>
            \E k \in 1..Len(upserts) :
              C18_Key(upserts[k][1]) = key /\ catalog[key] = << upserts[k][2] >>

\* a name that holds the organization's name twice lost the first one only
C18_Witness ==
  /\ client_call.op = "update_port_repository_team"
  /\ client_call.repo = <<"org", "org", "svc1">>
  /\ client_call.team = "T2"
  /\ catalog[<<"org", "svc1">>] = <<"T2">>
  /\ catalog[<<"svc1">>] = <<>>

\* C19 as stated: at most one token request is sent in a run.
C19_AtMostOneTokenRequest == tokenRequests <= 1

\* C19, amended: an invocation of process_repo sends at most one token
\* request, so a run sends at most as many as it has invocations; a lookup
\* or an upsert is made only with a token cached, and the token is cached
\* only after a request. Workers that find no token cached at the same
\* time each send a request, and so does the next call after a request
\* that failed.
C19_TokenRequests ==
  /\ \A i \in Units :
       /\ OpCount(i, "token_request") <= 1
       /\ pc[i] = "token_request" => OpCount(i, "token_request") = 0
       /\ ( \/ Lookups(i) # <<>>
            \/ OpCount(i, "update_port_repository_team") > 0
            \/ pc[i] = "upsert" ) => Cached(port_access_token)
  /\ tokenRequests <= Cardinality({ i \in Units : pc[i] \notin { "unsubmitted", "queued" } })
  /\ Cached(port_access_token) => tokenRequests >= 1 /\ session_auth

\* two workers found no token cached and each one's request succeeded
C19_Witness ==
  /\ tokenRequests = 2
  /\ Len(repos_to_process) = 2
  /\ \A i \in Units :
       \E k \in 1..Len(calls[i]) : calls[i][k] = Call("token_request", "ok")

\* C20 as stated: get_top_committers raises nothing.
C20_NeverRaises ==
  \A i \in Units :
    \A k \in 1..Len(calls[i]) : calls[i][k] # Call("get_top_committers", "raised")

\* the record at position a of `stats` ranks before the one at position b:
\* it has more commits, or as many and comes first
C21_Before(stats, a, b) ==
  \/ stats[a].total > stats[b].total
  \/ stats[a].total = stats[b].total /\ a < b
\* the positions of the records with the most commits, TOP_COMMITTERS_COUNT
\* at most
C21_Top(stats) ==
  { b \in 1..Len(stats) :
      Cardinality({ a \in 1..Len(stats) : C21_Before(stats, a, b) }) < TOP_COMMITTERS_COUNT }

\* C21: when get_top_committers returns, the records it returns are those
\* of the contributors that are among the TOP_COMMITTERS_COUNT highest by
\* total commits and have an email, each one once, with its email and
\* login, from the highest total to the lowest: a contributor without email
\* among the highest takes its place and is left out.
C21_TopCommitters ==
  ( client_call.op = "get_top_committers" /\ ~client_call.raised ) =>
    LET stats == client_call.stats
        result == client_call.committers
        at(j) == CHOOSE b \in 1..Len(stats) : stats[b].login = result[j].login
    IN /\ Len(result) <= TOP_COMMITTERS_COUNT
       /\ \A j \in 1..Len(result) :
            /\ result[j].email # ""
            /\ \E b \in C21_Top(stats) :
                 stats[b].login = result[j].login /\ stats[b].email = result[j].email
       /\ \A b \in C21_Top(stats) :
            stats[b].email # "" => \E j \in 1..Len(result) : result[j].login = stats[b].login
       /\ \A j, h \in 1..Len(result) :
            j < h => C21_Before(stats, at(j), at(h))

\* the contributor with the most commits has no email: the second one is
\* returned alone, the third one does not move up
C21_Witness ==
  /\ client_call.op = "get_top_committers"
  /\ ~client_call.raised
  /\ Len(client_call.stats) = 3
  /\ client_call.stats[1].login = "u2"
  /\ client_call.stats[2].login = "u3"
  /\ client_call.stats[3].login = "u1"
  /\ client_call.committers = << [email |-> "e1", login |-> "u1"] >>

\* C22: at most max_workers units, which is at most MAX_WORKERS, are being
\* processed at the same time; the units are queued by main, in the order of
\* the worklist and all of them before it waits; and a unit never goes back:
\* once queued it is not unsubmitted again, once taken by a worker it is
\* never queued again.
C22_BoundedConcurrency ==
  /\ [] /\ Cardinality(Running) <= max_workers
        /\ max_workers <= MAX_WORKERS
        /\ \A i \in Units : pc[i] = "unsubmitted" <=> i > submitted
        /\ mainPc \in { "wait", "cleanup" } \/ RunFinished =>
             submitted = Len(repos_to_process)
  /\ [][ /\ submitted' >= submitted
         /\ \A i \in DOMAIN pc :
              /\ pc[i] # "unsubmitted" => pc'[i] # "unsubmitted"
              /\ pc[i] \notin { "unsubmitted", "queued" } => pc'[i] # "queued"
              /\ pc[i] = "done" => pc'[i] = "done" ]_vars

\* a pool of one worker is busy and the second unit waits in the queue
C22_Witness ==
  /\ max_workers = 1
  /\ Len(repos_to_process) = 2
  /\ pc[1] = "search"
  /\ pc[2] = "queued"
  /\ mainPc = "wait"

\* C23: every run comes to an end; every unit that was queued is done at
\* some time, whether process_repo returned or raised; and main leaves the
\* wait, and is past it, only with every unit done.
C23_Termination ==
  /\ <>(mainPc \in { "exited", "aborted" })
  /\ \A i \in 1..MaxRepos :
       [](i \in DOMAIN pc /\ pc[i] = "queued" =>
            <>(i \in DOMAIN pc /\ pc[i] = "done"))
  /\ [](mainPc = "cleanup" \/ RunFinished => \A i \in Units : pc[i] = "done")
  /\ [][mainPc = "wait" /\ mainPc' # "wait" => \A i \in Units : pc[i] = "done"]_vars

\* main waits while one unit has raised and the other one is running
C23_Witness ==
  /\ mainPc = "wait"
  /\ Len(repos_to_process) = 2
  /\ pc[1] = "raised"
  /\ pc[2] = "upsert"

\* C24: with a required setting missing, main never gets past the import of
\* the configuration, where it ends with exit code 1: nothing is loaded,
\* listed, submitted or requested, and the state file stays as it was.
C24_AbortOnMissingSetting ==
  /\ [](mainPc = "aborted" => env # Settings /\ exitCode = 1)
  /\ [](env # Settings =>
          /\ mainPc \in { "import_config", "aborted" }
          /\ repos_to_process = <<>> /\ submitted = 0 /\ pc = <<>>
          /\ orgQuery = NoQuery
          /\ tokenRequests = 0 /\ port_access_token = "None"
          /\ \A n \in Names : invocations[n] = 0 /\ unmapped[n] = 0)
  /\ [][env # Settings => stateFile' = stateFile]_vars

\* the run aborted for a missing secret and left its state file alone
C24_Witness ==
  /\ mainPc = "aborted"
  /\ exitCode = 1
  /\ env = Settings \ { "PORT_CLIENT_SECRET" }
  /\ stateFile = File(<< <<"svc2">> >>)

\* the calls of process_repo on the client, without the token requests made
\* inside them and without the log entries
C25_IsClientCall(c) ==
  c.op \in { "get_repo", "get_top_committers", "get_port_user_team",
             "update_port_repository_team" }
C25_ClientCalls(i) == SelectSeq(calls[i], C25_IsClientCall)

\* C25: the client calls of one invocation are get_repo, then
\* get_top_committers, then the lookups of the committers in the order
\* get_top_committers returned them, each one made only after all lookups
\* before it came back None or empty, then at most one upsert, which follows a
\* lookup that found a team and is the last client call.
C25_StrictOrder ==
  \A i \in Units :
    LET tr == C25_ClientCalls(i)
        L == Lookups(i)
    IN /\ \A k \in 1..Len(tr) :
            /\ tr[k].op = "get_repo" <=> k = 1
            /\ tr[k].op = "get_top_committers" <=> k = 2
            /\ k > 1 => tr[k - 1].outcome # "None"
            /\ tr[k].op = "update_port_repository_team" =>
                 /\ k = Len(tr)
                 /\ IsLookup(tr[k - 1]) /\ Truthy(tr[k - 1].result)
            /\ IsLookup(tr[k]) /\ k > 3 =>
                 IsLookup(tr[k - 1]) /\ ~Truthy(tr[k - 1].result)
       /\ Len(L) <= Len(committers[i])
       /\ \A k \in 1..Len(L) : L[k].email = committers[i][k].email
       /\ OpCount(i, "update_port_repository_team") <= 1

\* the first committer had no team, the second one had: two lookups in rank
\* order, then the upsert
C25_Witness ==
  \E i \in Units :
    /\ pc[i] = "returned"
    /\ Len(Lookups(i)) = 2
    /\ Lookups(i)[1].email = "e1" /\ Lookups(i)[2].email = "e2"
    /\ LastCall(i).op = "update_port_repository_team"

\* C26: get_port_user_team sends the entity request only directly after a
\* search request that answered with an entity; after a search that failed
\* or found nothing, and when the token request failed, it sends none.
C26_EntityAfterSearch ==
  client_call.op = "get_port_user_team" =>
    LET rq == client_call.requests
    IN /\ \A k \in 1..Len(rq) :
            rq[k] = "entity" =>
              /\ k > 1 /\ rq[k - 1] = "search"
              /\ client_call.search = "found"
              /\ client_call.entity # NotSent
       /\ client_call.search # "found" =>
            /\ \A k \in 1..Len(rq) : rq[k] # "entity"
            /\ client_call.entity = NotSent
       /\ Cardinality({ k \in 1..Len(rq) : rq[k] = "entity" }) <= 1

\* the second lookup on the client found the user with its search and sent
\* the entity request after it
C26_Witness ==
  /\ client_call.op = "get_port_user_team"
  /\ client_call.search = "found"
  /\ client_call.requests = << "search", "entity" >>
  /\ client_call.n = 2

\* the entries with operation `op` in a call trace
C27_Count(tr, op) == Cardinality({ k \in 1..Len(tr) : tr[k].op = op })

\* C27: when process_repo returns, its invocation made either (a) an
\* unresolved get_repo and nothing else, or (b) one entry in the unmapped log
\* and no upsert, or (c) one upsert and no entry in the unmapped log: exactly
\* one of the three; the step that returns writes to the unmapped log of its
\* own repository only, and what it writes is what its trace holds.
C27_OutcomeExclusive ==
  /\ [][ \A i \in DOMAIN pc :
           pc[i] # "returned" /\ pc'[i] = "returned" =>
             LET n == repos_to_process[i]
                 tr == calls'[i]
                 logged == unmapped'[n] - unmapped[n]
                 upserts == C27_Count(tr, "update_port_repository_team")
                 unresolved == tr = << Call("get_repo", "None") >>
             IN /\ \A m \in Names \ { n } : unmapped'[m] = unmapped[m]
                /\ logged = C27_Count(tr, "unmapped")
                /\ \/ unresolved /\ logged = 0 /\ upserts = 0
                   \/ ~unresolved /\ logged = 1 /\ upserts = 0
                   \/ ~unresolved /\ logged = 0 /\ upserts = 1 ]_vars
  /\ [](\A i \in Units :
          pc[i] = "returned" =>
            C27_Count(calls[i], "unmapped")
              + C27_Count(calls[i], "update_port_repository_team")
              = IF calls[i] = << Call("get_repo", "None") >> THEN 0 ELSE 1)

\* the three outcomes: one unit returned from an unresolved repository, and
\* another one returned after its upsert
C27_Witness ==
  /\ Len(repos_to_process) = 2
  /\ pc[1] = "returned" /\ calls[1] = << Call("get_repo", "None") >>
  /\ pc[2] = "returned" /\ LastCall(2).op = "update_port_repository_team"
  /\ unmapped = [n \in Names |-> 0]

\* the catalog key of the unit's repository
C28_Key(i) == CleanRepoName(repos_to_process[i])
\* the unit's trace ends with an upsert that failed
C28_Failed(i) ==
  /\ calls[i] # <<>>
  /\ LastCall(i).op = "update_port_repository_team"
  /\ LastCall(i).outcome = "fail"

\* C28: the step of the upsert request always returns from process_repo; a
\* failed one leaves the catalog and the unmapped log as they are. A trace
\* holds an upsert only as its last entry, so after the failed upsert there
\* is no second upsert, no lookup and no unmapped entry; and in a run over a
\* fresh listing the repository then has no team in the catalog and no
\* entry in the unmapped log, up to the end of the run.
C28_FailedUpsertTerminal ==
  /\ [][ \A i \in DOMAIN pc :
           /\ pc[i] = "upsert" /\ pc'[i] # "upsert" =>
                /\ pc'[i] = "returned"
                /\ calls'[i] = calls[i] \o << calls'[i][Len(calls'[i])] >>
                /\ calls'[i][Len(calls'[i])].op = "update_port_repository_team"
                /\ calls'[i][Len(calls'[i])].outcome = "fail" =>
                     catalog' = catalog /\ unmapped' = unmapped
           /\ pc[i] = "returned" /\ C28_Failed(i) =>
                /\ pc'[i] \in { "returned", "done" }
                /\ catalog'[C28_Key(i)] = <<>> /\ unmapped'[repos_to_process[i]] = 0
           /\ /\ pc[i] = "done"
              /\ catalog[C28_Key(i)] = <<>> /\ unmapped[repos_to_process[i]] = 0
              => catalog'[C28_Key(i)] = <<>> /\ unmapped'[repos_to_process[i]] = 0 ]_vars
  /\ [](\A i \in Units :
          /\ \A k \in 1..Len(calls[i]) :
               calls[i][k].op = "update_port_repository_team" => k = Len(calls[i])
          /\ pc[i] = "returned" /\ C28_Failed(i) =>
               /\ C27_Count(calls[i], "unmapped") = 0
               /\ catalog[C28_Key(i)] = <<>>
               /\ unmapped[repos_to_process[i]] = 0)

\* the first committer of a repository had a team and the upsert failed:
\* process_repo returned, and the repository is in neither place although a
\* second committer was there
C28_Witness ==
  \E i \in Units :
    /\ pc[i] = "returned" /\ C28_Failed(i)
    /\ Len(committers[i]) = 2 /\ idx[i] = 1
    /\ catalog[C28_Key(i)] = <<>> /\ unmapped[repos_to_process[i]] = 0

\* C29: on a client used by one thread, a cached token stays as it is and no
\* operation sends a token request while there is one; without a cached
\* token every catalog operation starts with one token request; a request
\* that fails raises and leaves the cache empty, and the session carries the
\* Authorization header exactly when a token is cached.
C29_TokenCache ==
  /\ [][ LET sent == tokenRequests' - tokenRequests
             catalogOp == /\ client_call'.n = client_call.n + 1
                          /\ client_call'.op \in CatalogOps
         IN /\ Cached(port_access_token) =>
                 /\ port_access_token' = port_access_token
                 /\ sent = 0
                 /\ \A k \in 1..Len(client_call'.requests) :
                      client_call'.requests[k] # "token"
            /\ ~Cached(port_access_token) /\ catalogOp =>
                 /\ sent = 1
                 /\ client_call'.requests[1] = "token"
                 /\ Cached(port_access_token') <=> ~client_call'.raised
                 /\ client_call'.raised => client_call'.requests = << "token" >>
            /\ ~catalogOp => sent = 0 /\ port_access_token' = port_access_token ]_vars
  /\ [](session_auth <=> Cached(port_access_token))

\* the first token request failed, the second call on the client sent a new
\* one, which succeeded
C29_Witness ==
  /\ client_call.n = 2
  /\ tokenRequests = 2
  /\ Cached(port_access_token) /\ session_auth
  /\ client_call.requests[1] = "token"

====
